---- MODULE Spec2Model ----
(***************************************************************************)
(* Boot and interrupt-dispatch core of the c-morse RP2040 firmware image:  *)
(* the vector table and weak/strong handler binding of startup.c, the      *)
(* reset handler, the default trap, and the button edge handler and main   *)
(* of transmitter.c, run on a Cortex-M0+ style exception model (one        *)
(* execution context, handlers pushed on a stack of frames).               *)
(***************************************************************************)
EXTENDS Integers, Sequences, FiniteSets, TLC

(***************************************************************************)
(* Bounds of the model.                                                    *)
(***************************************************************************)
\* delay()'s counter advances DelayStep counts per modelled iteration
DelayStep == 100000
\* rising edges of the button that are counted after the stale-edge clear
MaxEdges == 2
\* a second GPIO pin, sharing the button's interrupt register
OtherPin == 17
\* the peripheral interrupts 0..MaxUnboundIrq (timer 0 onwards) stand for
\* the slots without an application handler
MaxUnboundIrq == 2

(***************************************************************************)
(* Program constants (transmitter.c #defines, startup.c table positions).  *)
(***************************************************************************)
BUTTON_PIN == 16
SPEAKER_PIN == 21
LED_PIN == 25
GPIO_FUNC_SIO == 5
GPIO_INT_EDGE_HIGH == 8
IO_BANK0_IRQ == 13
\* index of the first peripheral interrupt entry of the table
IrqBase == 16
\* table indexes of the reset, NMI and hard fault entries
ResetExc == 1
NmiExc == 2
HardFaultExc == 3
\* bit of IO Bank 0 in the RESETS_RESET register
IoBank0ResetBit == 5
\* iterations of main's startup test pattern
BlinkCount == 3
\* delay arguments: the handler's hold, the test pattern, the debug flash
HandlerDelay == 100000
BlinkDelay == 100000
FlashDelay == 500000

(***************************************************************************)
(* 32-bit words.  A register value is held as the set of its set bit       *)
(* positions.  Bits converts a literal of the code (all are below 2^31);   *)
(* Shl is the 32-bit left shift: bits moved past position 31 are lost.     *)
(***************************************************************************)
WordBits == 0..31

Bits(n) == {b \in 0..30 : (n \div (2 ^ b)) % 2 = 1}

Shl(n, k) == {b + k : b \in Bits(n)} \cap WordBits

Not32(s) == WordBits \ s

(***************************************************************************)
(* Link-time binding (startup.c weak aliases, strong definitions).         *)
(***************************************************************************)
\* the handler names declared weak with alias("defaultHandler")
WeakNames ==
    { "nmiHandler", "hardFaultHandler", "svCallHandler", "pendSvHandler",
      "sysTickHandler", "timerIrq0", "timerIrq1", "timerIrq2", "timerIrq3",
      "pwmIrqWrap", "usbctrlIrq", "xipIrq", "pio0Irq0", "pio0Irq1",
      "pio1Irq0", "pio1Irq1", "dmaIrq0", "dmaIrq1", "ioIrqBank0",
      "ioIrqQspi", "sioIrqProc0", "sioIrqProc1", "clocksIrq", "spi0Irq",
      "spi1Irq", "uart0Irq", "uart1Irq", "adcIrqFifo", "i2c0Irq", "i2c1Irq",
      "rtcIrq" }

WeakAlias(sym) == "defaultHandler"

\* the strong (ordinary) function definitions of the two translation units
StrongDefs ==
    { [fn |-> "defaultHandler", file |-> "startup.c"],
      [fn |-> "resetHandler", file |-> "startup.c"],
      [fn |-> "ioIrqBank0", file |-> "transmitter.c"],
      [fn |-> "main", file |-> "transmitter.c"] }

StrongOf(sym) == {d \in StrongDefs : d.fn = sym}

\* the definitions a symbol can bind to: its strong definitions when there
\* are any, otherwise the definition its weak alias names
Candidates(sym) ==
    IF StrongOf(sym) # {} THEN StrongOf(sym)
    ELSE IF sym \in WeakNames THEN StrongOf(WeakAlias(sym))
    ELSE {}

ResolveWeakWins(sym) ==
    IF sym \in WeakNames THEN CHOOSE d \in StrongOf(WeakAlias(sym)) : TRUE
    ELSE CHOOSE d \in StrongOf(sym) : TRUE

Resolve(sym) == CHOOSE d \in Candidates(sym) : TRUE

(***************************************************************************)
(* The vector table.                                                       *)
(***************************************************************************)
VectorSourceSwapped ==
    << "resetHandler", "_sstack", "nmiHandler", "hardFaultHandler",
       "0", "0", "0", "0", "0", "0", "0", "svCallHandler", "0", "0",
       "pendSvHandler", "sysTickHandler",
       "timerIrq0", "timerIrq1", "timerIrq2", "timerIrq3", "pwmIrqWrap",
       "usbctrlIrq", "xipIrq", "pio0Irq0", "pio0Irq1", "pio1Irq0",
       "pio1Irq1", "dmaIrq0", "dmaIrq1", "ioIrqBank0", "ioIrqQspi",
       "sioIrqProc0", "sioIrqProc1", "clocksIrq", "spi0Irq", "spi1Irq",
       "uart0Irq", "uart1Irq", "adcIrqFifo", "i2c0Irq", "i2c1Irq", "rtcIrq",
       "0", "0", "0", "0", "0", "0" >>

VectorSourceNullNmi ==
    << "_sstack", "resetHandler", "0", "hardFaultHandler",
       "0", "0", "0", "0", "0", "0", "0", "svCallHandler", "0", "0",
       "pendSvHandler", "sysTickHandler",
       "timerIrq0", "timerIrq1", "timerIrq2", "timerIrq3", "pwmIrqWrap",
       "usbctrlIrq", "xipIrq", "pio0Irq0", "pio0Irq1", "pio1Irq0",
       "pio1Irq1", "dmaIrq0", "dmaIrq1", "ioIrqBank0", "ioIrqQspi",
       "sioIrqProc0", "sioIrqProc1", "clocksIrq", "spi0Irq", "spi1Irq",
       "uart0Irq", "uart1Irq", "adcIrqFifo", "i2c0Irq", "i2c1Irq", "rtcIrq",
       "0", "0", "0", "0", "0", "0" >>

\* the initialiser list of vector[], in source order
\* the table with the entries of IO Bank 0 and IO QSPI in each other's place
VectorSourceMisplaced ==
    [VectorSourceSwapped EXCEPT ![1] = "_sstack", ![2] = "resetHandler",
                                ![30] = "ioIrqQspi", ![31] = "ioIrqBank0"]

VectorSource ==
    << "_sstack", "resetHandler", "nmiHandler", "hardFaultHandler",
       "0", "0", "0", "0", "0", "0", "0", "svCallHandler", "0", "0",
       "pendSvHandler", "sysTickHandler",
       "timerIrq0", "timerIrq1", "timerIrq2", "timerIrq3", "pwmIrqWrap",
       "usbctrlIrq", "xipIrq", "pio0Irq0", "pio0Irq1", "pio1Irq0",
       "pio1Irq1", "dmaIrq0", "dmaIrq1", "ioIrqBank0", "ioIrqQspi",
       "sioIrqProc0", "sioIrqProc1", "clocksIrq", "spi0Irq", "spi1Irq",
       "uart0Irq", "uart1Irq", "adcIrqFifo", "i2c0Irq", "i2c1Irq", "rtcIrq",
       "0", "0", "0", "0", "0", "0" >>

\* table indexes are 0-based as in the source
VectorIndexes == 0..(Len(VectorSource) - 1)

\* a null function address, and the stack-top data address
Null == "0"
StackTop == "&_sstack"

\* what one initialiser evaluates to in the linked image: an address, named
\* by the function defined there
Link(sym) ==
    IF sym = "0" THEN Null
    ELSE IF sym = "_sstack" THEN StackTop
    ELSE Resolve(sym).fn

\* the table as placed in the image, entry n of the source at position n + 1
VectorImage == [n \in 1..Len(VectorSource) |-> Link(VectorSource[n])]

\* the indexes whose initialiser is a named handler (not 0, not the stack)
NamedIndexes == {n \in VectorIndexes : VectorSource[n + 1] \notin {"0", "_sstack"}}

(***************************************************************************)
(* State.                                                                  *)
(***************************************************************************)
VARIABLES
    vector,     \* the vector table in the image, a sequence of addresses
    sp,         \* the main stack pointer
    stack,      \* the frames of the one execution context, innermost last
    hw,         \* the memory-mapped registers
    pin,        \* the input level of each modelled GPIO pin
    armed,      \* main has executed its stale-edge clear (line 130)
    mainCalls,  \* calls of main made by resetHandler
    edges,      \* rising edges of the button since armed
    fresh,      \* those of them that set a clear pending bit
    serviced    \* invocations of ioIrqBank0 that asserted the outputs

\* entry n of the table, indexed from 0 as in the source
Entry(n) == vector[n + 1]

vars == << vector, sp, stack, hw, pin, armed, mainCalls, edges, fresh, serviced >>

ghost == << armed, mainCalls, edges, fresh, serviced >>

\* the GPIO pins whose input the environment drives
ModelPins == {BUTTON_PIN, OtherPin}

\* the pins main configures
ConfigPins == {BUTTON_PIN, LED_PIN, SPEAKER_PIN}

(***************************************************************************)
(* IO Bank 0 interrupt registers: four event bits per pin, eight pins per  *)
(* register (level low, level high, edge low, edge high).                  *)
(***************************************************************************)
IntRegs == 0..3

\* the register index and the bit position the code computes for an event
\* mask of a pin:  reg[pin / 8]  and  mask << (4 * (pin % 8))
RegOf(p) == p \div 8

EventBits(mask, p) == Shl(mask, 4 * (p % 8))

LevelLowBits(p) == EventBits(1, p)
LevelHighBits(p) == EventBits(2, p)
EdgeLowBits(p) == EventBits(4, p)
EdgeHighBits(p) == EventBits(GPIO_INT_EDGE_HIGH, p)

\* the latched (write-1-to-clear) bits of an interrupt register
EdgeBitsOfReg(k) ==
    UNION {EventBits(4, p) \cup EventBits(8, p) : p \in {q \in 0..29 : RegOf(q) = k}}

\* what a read of intr[k] returns: the latched edges and the live levels
IntrRead(h, pn, k) ==
    h.intr[k] \cup
    UNION { IF pn[p] THEN LevelHighBits(p) ELSE LevelLowBits(p)
            : p \in {q \in ModelPins : RegOf(q) = k} }

\* what a read of proc0_ints[k] returns (proc0_intf is never written: 0)
IntsRead(h, pn, k) == IntrRead(h, pn, k) \cap h.inte[k]

\* IO Bank 0 is held in reset until main releases it
IoBankInReset(h) == IoBank0ResetBit \in h.resets

\* the interrupt request line of a peripheral interrupt number: IO Bank 0
\* drives the line of IO_BANK0_IRQ; a peripheral that is not modelled has
\* its request latched in the interrupt controller (pend)
IrqLine(h, pn, irq) ==
    \/ /\ irq = IO_BANK0_IRQ
       /\ ~IoBankInReset(h)
       /\ \E k \in IntRegs : IntsRead(h, pn, k) # {}
    \/ irq \in h.pend

(***************************************************************************)
(* Register stores, by the register's hardware write semantics.            *)
(***************************************************************************)
Store(h, reg, idx, val) ==
    CASE reg = "RESETS_RESET" -> [h EXCEPT !.resets = val]
      [] reg = "gpio_ctrl" -> [h EXCEPT !.ctrl[idx] = val]
      [] reg = "pads_gpio" -> [h EXCEPT !.pads[idx] = val]
      [] reg = "gpio_oe_set" -> [h EXCEPT !.oe = @ \cup val]
      [] reg = "gpio_oe_clr" -> [h EXCEPT !.oe = @ \ val]
      [] reg = "gpio_out_set" -> [h EXCEPT !.out = @ \cup val]
      [] reg = "gpio_out_clr" -> [h EXCEPT !.out = @ \ val]
      [] reg = "intr" -> [h EXCEPT !.intr[idx] = @ \ (val \cap EdgeBitsOfReg(idx))]
      [] reg = "proc0_inte" -> [h EXCEPT !.inte[idx] = val]
      [] reg = "NVIC_ISER" -> [h EXCEPT !.iser = @ \cup val]

\* the registers after reset: every peripheral held in reset, no function
\* selected (31), nothing enabled, nothing pending
HwReset ==
    [ resets |-> 0..24,
      ctrl |-> [p \in ConfigPins |-> 31],
      pads |-> [p \in {BUTTON_PIN} |-> {}],
      oe |-> {},
      out |-> {},
      intr |-> [k \in IntRegs |-> {}],
      inte |-> [k \in IntRegs |-> {}],
      iser |-> {},
      pend |-> {} ]

(***************************************************************************)
(* Frames.                                                                 *)
(***************************************************************************)
\* a frame: the function, its position, the exception number it was entered
\* for (0 for an ordinary call), its locals (i, count, tmp), its arguments,
\* and what is recorded of the invocation: whether the button's source was
\* asserted when ioIrqBank0 read it (entry), the count of button edges when
\* it wrote its clear (mark), and the register accesses it made (log)
Frame(fn, exc, pc) ==
    [ fn |-> fn, pc |-> pc, exc |-> exc, i |-> 0, count |-> 0, tmp |-> {},
      entry |-> "none", mark |-> 0, args |-> << >>, log |-> << >> ]

Top == stack[Len(stack)]

Running(fn, pc) == /\ stack # << >>
                   /\ Top.fn = fn
                   /\ Top.pc = pc

SetTop(f) == [stack EXCEPT ![Len(stack)] = f]

Goto(pc) == SetTop([Top EXCEPT !.pc = pc])

Pop == SubSeq(stack, 1, Len(stack) - 1)

Access(op, reg) == << op, reg >>

\* the first position of each function
EntryPc(fn) ==
    CASE fn = "resetHandler" -> "r136"
      [] fn = "defaultHandler" -> "d153"
      [] fn = "ioIrqBank0" -> "h84"
      [] fn = "main" -> "m107r"
      [] fn = "delay" -> "t72"
      [] OTHER -> "undefined"

\* execution priority (lower is more urgent): NMI and hard fault fixed at
\* -2 and -1, every other exception at the priority 0 it has after reset
\* (the code sets none), thread mode and called functions below them all
Priority(exc) ==
    CASE exc = NmiExc -> -2
      [] exc = HardFaultExc -> -1
      [] exc > HardFaultExc -> 0
      [] OTHER -> 256

RECURSIVE MinPriority(_)
MinPriority(s) ==
    IF s = << >> THEN 256
    ELSE LET r == MinPriority(Tail(s))
             p == Priority(Head(s).exc)
         IN IF p < r THEN p ELSE r

\* exception entry through table index n: the hardware jumps to vector[n]
ExceptionEntry(n) ==
    stack' = Append(stack, Frame(Entry(n), n, EntryPc(Entry(n))))

(***************************************************************************)
(* Initial state: the image is linked, the chip is in reset.               *)
(***************************************************************************)
Init ==
    /\ vector = VectorImage
    /\ sp = Null
    /\ stack = << >>
    /\ hw = HwReset
    /\ pin \in [ModelPins -> BOOLEAN]
    /\ armed = FALSE
    /\ mainCalls = 0
    /\ edges = 0
    /\ fresh = 0
    /\ serviced = 0

(***************************************************************************)
(* Hardware: reset, exception entry, the pins, wake-up from wfi.           *)
(***************************************************************************)
\* reset: the stack pointer is loaded from entry 0 and execution starts at
\* entry 1 of the table
ResetEntry ==
    /\ stack = << >>
    /\ sp = Null
    /\ sp' = Entry(0)
    /\ ExceptionEntry(ResetExc)
    /\ UNCHANGED << vector, hw, pin, ghost >>

\* a fault escalates to the hard fault entry, unless one is being handled
Fault ==
    /\ stack # << >>
    /\ Priority(HardFaultExc) < MinPriority(stack)
    /\ ExceptionEntry(HardFaultExc)
    /\ UNCHANGED << vector, sp, hw, pin, ghost >>

\* a peripheral interrupt that is enabled in the interrupt controller and
\* whose request line is asserted is entered when nothing of the same or a
\* higher priority is active
Dispatchable(n) ==
    /\ n >= IrqBase
    /\ sp # Null
    /\ (n - IrqBase) \in hw.iser
    /\ IrqLine(hw, pin, n - IrqBase)
    /\ Priority(n) < MinPriority(stack)

\* entry of a dispatchable peripheral interrupt; the request latched in the
\* interrupt controller is taken
IrqEntry ==
    \E n \in VectorIndexes :
        /\ Dispatchable(n)
        /\ ExceptionEntry(n)
        /\ hw' = [hw EXCEPT !.pend = @ \ {n - IrqBase}]
        /\ UNCHANGED << vector, sp, pin, ghost >>

\* the condition of a peripheral interrupt that no code of the image
\* services is raised: the request is latched in the interrupt controller
RaiseIrq(irq) ==
    /\ sp # Null
    /\ irq \notin hw.pend
    /\ hw' = [hw EXCEPT !.pend = @ \cup {irq}]
    /\ UNCHANGED << vector, sp, stack, pin, ghost >>

\* a rising edge on a pin; IO Bank 0 latches it once out of reset
PinRise(p) ==
    /\ ~pin[p]
    /\ (p = BUTTON_PIN /\ armed) => edges < MaxEdges
    /\ pin' = [pin EXCEPT ![p] = TRUE]
    /\ hw' = IF IoBankInReset(hw) THEN hw
             ELSE [hw EXCEPT !.intr[RegOf(p)] = @ \cup EdgeHighBits(p)]
    /\ edges' = IF p = BUTTON_PIN /\ armed THEN edges + 1 ELSE edges
    /\ fresh' = IF /\ p = BUTTON_PIN
                   /\ armed
                   /\ EdgeHighBits(p) \cap hw.intr[RegOf(p)] = {}
                THEN fresh + 1 ELSE fresh
    /\ UNCHANGED << vector, sp, stack, armed, mainCalls, serviced >>

\* a falling edge on a pin
PinFall(p) ==
    /\ pin[p]
    /\ pin' = [pin EXCEPT ![p] = FALSE]
    /\ hw' = IF IoBankInReset(hw) THEN hw
             ELSE [hw EXCEPT !.intr[RegOf(p)] = @ \cup EdgeLowBits(p)]
    /\ UNCHANGED << vector, sp, stack, ghost >>

\* the position after a wfi instruction in which a frame is suspended
AfterWfi(pc) ==
    CASE pc = "d153w" -> "d154"
      [] pc = "m153w" -> "m154"

\* the suspended context resumes after its wfi (an interrupt, or the wake-up
\* the architecture allows at any time)
Wake ==
    /\ stack # << >>
    /\ Top.pc \in {"d153w", "m153w"}
    /\ stack' = Goto(AfterWfi(Top.pc))
    /\ UNCHANGED << vector, sp, hw, pin, ghost >>

(***************************************************************************)
(* startup.c: resetHandler and defaultHandler.                             *)
(***************************************************************************)
\* the instruction at each position of the two loops of startup.c
Instr(fn, pc) ==
    CASE fn = "defaultHandler" /\ pc = "d153" -> "wfi"
      [] fn = "defaultHandler" /\ pc = "d154" -> "branch"
      [] fn = "resetHandler" /\ pc = "r136" -> "call"
      [] fn = "resetHandler" /\ pc = "r137" -> "branch"
      [] OTHER -> "other"

ResetAfterCallAgain == "r136"

\* where resetHandler continues when its call of main returns
ResetAfterCall == "r137"

\* line 136: main();
ResetCallMain ==
    /\ Running("resetHandler", "r136")
    /\ stack' = Append(Goto(ResetAfterCall),
                       Frame(Resolve("main").fn, 0, EntryPc(Resolve("main").fn)))
    /\ mainCalls' = mainCalls + 1
    /\ UNCHANGED << vector, sp, hw, pin, armed, edges, fresh, serviced >>

\* line 137: while(true);
ResetSpin ==
    /\ Running("resetHandler", "r137")
    /\ Instr("resetHandler", "r137") = "branch"
    /\ stack' = Goto("r137")
    /\ UNCHANGED << vector, sp, hw, pin, ghost >>

DefaultNextPcNoWait(pc) ==
    CASE pc = "d153" -> "d154"
      [] pc = "d154" -> "d153"

\* the loop of defaultHandler: line 153 executes wfi and suspends, line 154
\* closes while (true)
DefaultNextPc(pc) ==
    CASE pc = "d153" -> "d153w"
      [] pc = "d154" -> "d153"

\* line 153: __asm volatile("wfi");
DefaultWfi ==
    /\ Running("defaultHandler", "d153")
    /\ Instr("defaultHandler", "d153") = "wfi"
    /\ stack' = Goto(DefaultNextPc("d153"))
    /\ UNCHANGED << vector, sp, hw, pin, ghost >>

\* lines 152, 154 with the loop left: defaultHandler returns
DefaultLoopReturns ==
    /\ Running("defaultHandler", "d154")
    /\ stack' = Pop
    /\ UNCHANGED << vector, sp, hw, pin, ghost >>

\* lines 152, 154: while (true)
DefaultLoop ==
    /\ Running("defaultHandler", "d154")
    /\ Instr("defaultHandler", "d154") = "branch"
    /\ stack' = Goto(DefaultNextPc("d154"))
    /\ UNCHANGED << vector, sp, hw, pin, ghost >>

(***************************************************************************)
(* transmitter.c: delay.                                                   *)
(***************************************************************************)
\* a call of delay(count) from the running frame, which continues at ret
CallDelay(count, ret) ==
    Append(Goto(ret), [Frame("delay", 0, EntryPc("delay")) EXCEPT !.count = count])

\* line 72: i < count
DelayTest ==
    /\ Running("delay", "t72")
    /\ stack' = Goto(IF Top.i < Top.count THEN "t73" ELSE "t75")
    /\ UNCHANGED << vector, sp, hw, pin, ghost >>

\* lines 73, 72: nop; i++  (DelayStep counts at a time)
DelayNop ==
    /\ Running("delay", "t73")
    /\ stack' = SetTop([Top EXCEPT !.pc = "t72", !.i = @ + DelayStep])
    /\ UNCHANGED << vector, sp, hw, pin, ghost >>

\* line 75: return to the caller
DelayReturn ==
    /\ Running("delay", "t75")
    /\ stack' = Pop
    /\ UNCHANGED << vector, sp, hw, pin, ghost >>

(***************************************************************************)
(* transmitter.c: ioIrqBank0.                                              *)
(***************************************************************************)
\* (1U << LED_PIN) | (1U << SPEAKER_PIN)
OutMask == Shl(1, LED_PIN) \cup Shl(1, SPEAKER_PIN)

ButtonAssertedAlways(h, pn) == TRUE

\* line 84: io->proc0_ints[BUTTON_PIN / 8] & (GPIO_INT_EDGE_HIGH << (4 * (BUTTON_PIN % 8)))
ButtonAsserted(h, pn) ==
    (IntsRead(h, pn, BUTTON_PIN \div 8)
        \cap Shl(GPIO_INT_EDGE_HIGH, 4 * (BUTTON_PIN % 8))) # {}

AckValueNone == {}

AckValueAll == WordBits

\* lines 97 and 130: 0xF << (4 * (BUTTON_PIN % 8))
AckValue == Shl(15, 4 * (BUTTON_PIN % 8))

AckIndexSwapped == BUTTON_PIN % 8

\* lines 97 and 130: the index in io->intr[BUTTON_PIN / 8]
AckIndex == BUTTON_PIN \div 8

\* the button's own source: its edge-high event, enabled and latched
SourceAsserted(h, pn) ==
    EdgeHighBits(BUTTON_PIN) \subseteq IntsRead(h, pn, RegOf(BUTTON_PIN))

\* the running frame makes one register store and moves on
StoreStep(reg, idx, val, next) ==
    /\ hw' = Store(hw, reg, idx, val)
    /\ stack' = SetTop([Top EXCEPT !.pc = next,
                                   !.log = Append(@, Access("w", reg))])

\* saturating count of serviced invocations
Bump(n) == IF n > MaxEdges THEN n ELSE n + 1

\* line 84: the test of the button's edge-high status
IrqTest ==
    /\ Running("ioIrqBank0", "h84")
    /\ stack' = SetTop([Top EXCEPT
                   !.pc = IF ButtonAsserted(hw, pin) THEN "h91" ELSE "h99",
                   !.entry = IF SourceAsserted(hw, pin) THEN "asserted" ELSE "clear",
                   !.log = Append(@, Access("r", "proc0_ints"))])
    /\ UNCHANGED << vector, sp, hw, pin, ghost >>

\* line 91: sio->gpio_out_set = ...
IrqSet ==
    /\ Running("ioIrqBank0", "h91")
    /\ StoreStep("gpio_out_set", 0, OutMask, "h92")
    /\ serviced' = Bump(serviced)
    /\ UNCHANGED << vector, sp, pin, armed, mainCalls, edges, fresh >>

\* line 92: delay(100000);
IrqDelay ==
    /\ Running("ioIrqBank0", "h92")
    /\ stack' = CallDelay(HandlerDelay, "h94")
    /\ UNCHANGED << vector, sp, hw, pin, ghost >>

\* line 94 left out: the outputs are not deasserted
IrqClrSkipped ==
    /\ Running("ioIrqBank0", "h94")
    /\ stack' = Goto("h97")
    /\ UNCHANGED << vector, sp, hw, pin, ghost >>

\* line 94: sio->gpio_out_clr = ...
IrqClr ==
    /\ Running("ioIrqBank0", "h94")
    /\ StoreStep("gpio_out_clr", 0, OutMask, "h97")
    /\ UNCHANGED << vector, sp, pin, ghost >>

\* line 97: io->intr[BUTTON_PIN / 8] = 0xF << ...
IrqAck ==
    /\ Running("ioIrqBank0", "h97")
    /\ hw' = Store(hw, "intr", AckIndex, AckValue)
    /\ stack' = SetTop([Top EXCEPT !.pc = "h99", !.mark = edges,
                                   !.log = Append(@, Access("w", "intr"))])
    /\ UNCHANGED << vector, sp, pin, ghost >>

\* line 99: the handler returns; the hardware unstacks the interrupted context
IrqReturn ==
    /\ Running("ioIrqBank0", "h99")
    /\ stack' = Pop
    /\ UNCHANGED << vector, sp, hw, pin, ghost >>

(***************************************************************************)
(* transmitter.c: main.                                                    *)
(***************************************************************************)
\* a store of main that touches nothing but the registers and its position
MainStore(pc, reg, idx, val, next) ==
    /\ Running("main", pc)
    /\ StoreStep(reg, idx, val, next)
    /\ UNCHANGED << vector, sp, pin, ghost >>

\* line 107, the read of *RESETS_RESET &= ~(1U << 5)
MainResetRead ==
    /\ Running("main", "m107r")
    /\ stack' = SetTop([Top EXCEPT !.pc = "m107w", !.tmp = hw.resets,
                                   !.log = Append(@, Access("r", "RESETS_RESET"))])
    /\ UNCHANGED << vector, sp, hw, pin, ghost >>

\* line 107, the write
MainResetWrite ==
    MainStore("m107w", "RESETS_RESET", 0,
              Top.tmp \cap Not32(Shl(1, IoBank0ResetBit)), "m108")

\* line 108: while ((*RESETS_RESET & (1U << 5)) != 0) {}
MainResetPoll ==
    /\ Running("main", "m108")
    /\ stack' = Goto(IF (hw.resets \cap Shl(1, IoBank0ResetBit)) # {}
                     THEN "m108" ELSE "m114")
    /\ UNCHANGED << vector, sp, hw, pin, ghost >>

\* line 132 placed first in the configuration, at line 114
MainButtonCtrlEnables ==
    MainStore("m114", "NVIC_ISER", 0, Shl(1, IO_BANK0_IRQ), "m115")

\* lines 114-116: the button pin
MainButtonCtrl == MainStore("m114", "gpio_ctrl", BUTTON_PIN, GPIO_FUNC_SIO, "m115")
MainButtonInput == MainStore("m115", "gpio_oe_clr", 0, Shl(1, BUTTON_PIN), "m116")
MainButtonPad ==
    MainStore("m116", "pads_gpio", BUTTON_PIN, Shl(1, 3) \cup Shl(1, 6), "m119")

\* lines 119-120: the LED pin
MainLedCtrl == MainStore("m119", "gpio_ctrl", LED_PIN, GPIO_FUNC_SIO, "m120")
MainLedOutput == MainStore("m120", "gpio_oe_set", 0, Shl(1, LED_PIN), "m123")

\* lines 123-124: the speaker pin
MainSpeakerCtrl == MainStore("m123", "gpio_ctrl", SPEAKER_PIN, GPIO_FUNC_SIO, "m124")
MainSpeakerOutput == MainStore("m124", "gpio_oe_set", 0, Shl(1, SPEAKER_PIN), "m130")

\* line 130: clear pending interrupts of the button
MainAck ==
    /\ Running("main", "m130")
    /\ StoreStep("intr", AckIndex, AckValue, "m131r")
    /\ armed' = TRUE
    /\ UNCHANGED << vector, sp, pin, mainCalls, edges, fresh, serviced >>

\* line 131, the read of io->proc0_inte[BUTTON_PIN / 8] |= ...
MainEnableRead ==
    /\ Running("main", "m131r")
    /\ stack' = SetTop([Top EXCEPT !.pc = "m131w", !.tmp = hw.inte[BUTTON_PIN \div 8],
                                   !.log = Append(@, Access("r", "proc0_inte"))])
    /\ UNCHANGED << vector, sp, hw, pin, ghost >>

\* line 131, the write
MainEnableWrite ==
    MainStore("m131w", "proc0_inte", BUTTON_PIN \div 8,
              Top.tmp \cup Shl(GPIO_INT_EDGE_HIGH, 4 * (BUTTON_PIN % 8)), "m132")

\* line 132 with the bit of an interrupt number behind the 26 of the table
MainNvicEnableReserved ==
    MainStore("m132", "NVIC_ISER", 0, Shl(1, Len(VectorSource) - IrqBase - 6), "m135")

\* line 132: NVIC_ISER = 1U << IO_BANK0_IRQ
MainNvicEnable == MainStore("m132", "NVIC_ISER", 0, Shl(1, IO_BANK0_IRQ), "m135")

\* line 135: i < 3
MainBlinkTest ==
    /\ Running("main", "m135")
    /\ stack' = Goto(IF Top.i < BlinkCount THEN "m137" ELSE "m145")
    /\ UNCHANGED << vector, sp, hw, pin, ghost >>

\* lines 137-141: one blink of the startup test pattern
MainBlinkOn == MainStore("m137", "gpio_out_set", 0, OutMask, "m138")

MainBlinkOnDelay ==
    /\ Running("main", "m138")
    /\ stack' = CallDelay(BlinkDelay, "m140")
    /\ UNCHANGED << vector, sp, hw, pin, ghost >>

MainBlinkOff == MainStore("m140", "gpio_out_clr", 0, OutMask, "m141")

MainBlinkOffDelay ==
    /\ Running("main", "m141")
    /\ stack' = CallDelay(BlinkDelay, "m142")
    /\ UNCHANGED << vector, sp, hw, pin, ghost >>

\* line 135: i++
MainBlinkNext ==
    /\ Running("main", "m142")
    /\ stack' = SetTop([Top EXCEPT !.pc = "m135", !.i = @ + 1])
    /\ UNCHANGED << vector, sp, hw, pin, ghost >>

\* lines 145-147: the debug LED flash
MainFlashOn == MainStore("m145", "gpio_out_set", 0, Shl(1, LED_PIN), "m146")

MainFlashDelay ==
    /\ Running("main", "m146")
    /\ stack' = CallDelay(FlashDelay, "m147")
    /\ UNCHANGED << vector, sp, hw, pin, ghost >>

\* line 147 left out: the LED stays on after the debug flash
MainFlashOffSkipped ==
    /\ Running("main", "m147")
    /\ stack' = Goto("m153")
    /\ UNCHANGED << vector, sp, hw, pin, ghost >>

MainFlashOff == MainStore("m147", "gpio_out_clr", 0, Shl(1, LED_PIN), "m153")

\* line 153: __asm volatile("wfi");
MainWfi ==
    /\ Running("main", "m153")
    /\ stack' = Goto("m153w")
    /\ UNCHANGED << vector, sp, hw, pin, ghost >>

\* lines 152, 154 with the loop left: main returns to its caller
MainLoopReturns ==
    /\ Running("main", "m154")
    /\ stack' = Pop
    /\ UNCHANGED << vector, sp, hw, pin, ghost >>

\* lines 152, 154: while (1)
MainLoop ==
    /\ Running("main", "m154")
    /\ stack' = Goto("m153")
    /\ UNCHANGED << vector, sp, hw, pin, ghost >>

(***************************************************************************)
(* The image: startup.c linked with transmitter.c.                         *)
(***************************************************************************)
Environment ==
    \/ \E p \in ModelPins : PinRise(p)
    \/ \E p \in ModelPins : PinFall(p)
    \/ Fault
    \/ Wake

Handlers ==
    \/ IrqEntry
    \/ IrqTest
    \/ IrqSet
    \/ IrqDelay
    \/ IrqClr
    \/ IrqAck
    \/ IrqReturn
    \/ DefaultWfi
    \/ DefaultLoop
    \/ DelayTest
    \/ DelayNop
    \/ DelayReturn

MainSteps ==
    \/ MainResetRead
    \/ MainResetWrite
    \/ MainResetPoll
    \/ MainButtonCtrl
    \/ MainButtonInput
    \/ MainButtonPad
    \/ MainLedCtrl
    \/ MainLedOutput
    \/ MainSpeakerCtrl
    \/ MainSpeakerOutput
    \/ MainAck
    \/ MainEnableRead
    \/ MainEnableWrite
    \/ MainNvicEnable
    \/ MainBlinkTest
    \/ MainBlinkOn
    \/ MainBlinkOnDelay
    \/ MainBlinkOff
    \/ MainBlinkOffDelay
    \/ MainBlinkNext
    \/ MainFlashOn
    \/ MainFlashDelay
    \/ MainFlashOff
    \/ MainWfi
    \/ MainLoop

Next ==
    \/ ResetEntry
    \/ ResetCallMain
    \/ MainSteps
    \/ Handlers
    \/ Environment

Spec == Init /\ [][Next]_vars

(***************************************************************************)
(* resetHandler with an application entry that returns.  startup.c only    *)
(* declares main (extern int main(void)); here the entry returns where     *)
(* transmitter.c's main would enter its idle loop.                         *)
(***************************************************************************)
MainReturn ==
    /\ Running("main", "m153")
    /\ stack' = Pop
    /\ UNCHANGED << vector, sp, hw, pin, ghost >>

NextEntry ==
    \/ Next
    \/ MainReturn
    \/ ResetSpin

SpecEntry == Init /\ [][NextEntry]_vars

(***************************************************************************)
(* ioIrqBank0 on its own: entered through its table entry from any state   *)
(* of the interrupt registers and outputs.                                 *)
(***************************************************************************)
\* the latched bits the environment can have set
ModelEdgeBits == UNION {EdgeLowBits(p) \cup EdgeHighBits(p) : p \in ModelPins}

InitHandler ==
    /\ vector = VectorImage
    /\ sp = StackTop
    /\ stack = << >>
    /\ pin \in [ModelPins -> BOOLEAN]
    /\ \E latched \in SUBSET ModelEdgeBits,
          enabled \in SUBSET (UNION {EdgeHighBits(p) : p \in ModelPins}),
          out \in SUBSET OutMask :
            hw = [HwReset EXCEPT !.resets = @ \ {IoBank0ResetBit},
                                 !.intr[RegOf(BUTTON_PIN)] = latched,
                                 !.inte[RegOf(BUTTON_PIN)] = enabled,
                                 !.out = out]
    /\ armed = FALSE
    /\ mainCalls = 0
    /\ edges = 0
    /\ fresh = 0
    /\ serviced = 0

\* the handler is entered through the IO Bank 0 entry of the table
HandlerEntry ==
    /\ stack = << >>
    /\ sp # Null
    /\ ExceptionEntry(IrqBase + IO_BANK0_IRQ)
    /\ UNCHANGED << vector, sp, hw, pin, ghost >>

NextHandler ==
    \/ HandlerEntry
    \/ IrqTest
    \/ IrqSet
    \/ IrqDelay
    \/ IrqClr
    \/ IrqAck
    \/ IrqReturn
    \/ DelayTest
    \/ DelayNop
    \/ DelayReturn
    \/ \E p \in ModelPins : PinRise(p)
    \/ \E p \in ModelPins : PinFall(p)

SpecHandler == InitHandler /\ [][NextHandler]_vars

\* the instructions of ioIrqBank0 and of the delay it calls: the processor
\* keeps executing them while the handler is active
HandlerSteps ==
    \/ IrqTest
    \/ IrqSet
    \/ IrqDelay
    \/ IrqClr
    \/ IrqAck
    \/ IrqReturn
    \/ DelayTest
    \/ DelayNop
    \/ DelayReturn

SpecHandlerFair == SpecHandler /\ WF_vars(HandlerSteps)

(***************************************************************************)
(* defaultHandler on its own: peripheral interrupts without an application *)
(* handler are enabled in the interrupt controller and their conditions    *)
(* are raised, any number of times.                                        *)
(***************************************************************************)
UnboundIrqs == 0..MaxUnboundIrq

InitTrap ==
    /\ vector = VectorImage
    /\ sp = StackTop
    /\ stack = << >>
    /\ pin = [p \in ModelPins |-> FALSE]
    /\ \E enabled \in SUBSET UnboundIrqs : hw = [HwReset EXCEPT !.iser = enabled]
    /\ armed = FALSE
    /\ mainCalls = 0
    /\ edges = 0
    /\ fresh = 0
    /\ serviced = 0

NextTrap ==
    \/ \E irq \in UnboundIrqs : RaiseIrq(irq)
    \/ IrqEntry
    \/ Fault
    \/ Wake
    \/ DefaultWfi
    \/ DefaultLoop

SpecTrap == InitTrap /\ [][NextTrap]_vars

(***************************************************************************)
(* Derived state.                                                          *)
(***************************************************************************)
Frames == {stack[k] : k \in 1..Len(stack)}

\* the boot sequencer: Halted once resetHandler is in its final loop with
\* no call of main in progress, Running otherwise
BootState ==
    IF /\ \E f \in Frames : f.fn = "resetHandler" /\ f.pc = "r137"
       /\ ~(\E f \in Frames : f.fn = "main")
    THEN "Halted" ELSE "Running"

(***************************************************************************)
(* Properties.                                                             *)
(***************************************************************************)
DefaultHandlerDef == [fn |-> "defaultHandler", file |-> "startup.c"]
IoIrqBank0Def == [fn |-> "ioIrqBank0", file |-> "transmitter.c"]

\* the frames entered through the table for exception number n
EnteredFor(n) == {f \in Frames : f.exc = n}

\* C1: in every reachable state entry 0 of vector is the stack-top value
\* &_sstack and entry 1 is resetHandler (and the reset loaded the stack
\* pointer from entry 0 and entered entry 1), and no step of any operation
\* changes a table entry.
C1_VectorFixed ==
    /\ [](/\ Entry(0) = StackTop
          /\ Entry(1) = "resetHandler"
          /\ stack # << >> => /\ sp = StackTop
                              /\ stack[1].fn = "resetHandler")
    /\ [][vector' = vector]_vars

\* C1 witness: main idles after a serviced button interrupt, the table intact
C1_Witness ==
    /\ Running("main", "m153w")
    /\ serviced > 0
    /\ Entry(0) = StackTop
    /\ Entry(1) = "resetHandler"

\* C2 as claimed: every entry at an index other than 0 and 1 holds a real
\* handler or defaultHandler, none is a null function address.
C2_NoNullEntry ==
    \A n \in VectorIndexes \ {0, 1} :
        /\ Entry(n) # Null
        /\ Entry(n) \in {d.fn : d \in StrongDefs}

\* the indexes of the table that the source binds to a handler name
HandlerIndexes == {2, 3, 11, 14, 15} \cup (16..41)

\* C2 amended: every entry at a handler index (2, 3, 11, 14, 15, 16..41)
\* holds a real handler or defaultHandler, never null; the entries at the
\* remaining indexes other than 0 and 1 (4..10, 12, 13, 42..47), reserved by
\* the architecture, are null.
C2_NamedEntriesBound ==
    /\ \A n \in HandlerIndexes :
           /\ Entry(n) # Null
           /\ Entry(n) \in {"defaultHandler", "ioIrqBank0"}
    /\ \A n \in VectorIndexes \ (HandlerIndexes \cup {0, 1}) : Entry(n) = Null
    /\ \A f \in Frames : f.exc # 0 => /\ f.exc \in HandlerIndexes \cup {1}
                                      /\ f.fn # Null

\* C2 witness: the hardware has jumped through a handler entry of the table
C2_Witness ==
    \E f \in Frames : /\ f.exc = IrqBase + IO_BANK0_IRQ
                      /\ f.fn = Entry(f.exc)
                      /\ f.pc = "h99"

\* C3: every named handler slot binds to exactly one callable: ioIrqBank0 to
\* the definition of transmitter.c, every other weak name to the one
\* defaultHandler; the table holds these bindings and every exception is
\* entered at the function its entry is bound to.
C3_Binding ==
    /\ \A sym \in WeakNames :
           /\ Cardinality(Candidates(sym)) = 1
           /\ Resolve(sym) = IF sym = "ioIrqBank0" THEN IoIrqBank0Def
                             ELSE DefaultHandlerDef
    /\ \A n \in HandlerIndexes :
           Entry(n) = IF n = IrqBase + IO_BANK0_IRQ THEN IoIrqBank0Def.fn
                      ELSE DefaultHandlerDef.fn
    /\ \A f \in Frames :
           f.exc \in HandlerIndexes =>
               f.fn = IF f.exc = IrqBase + IO_BANK0_IRQ THEN "ioIrqBank0"
                      ELSE "defaultHandler"

\* C3 witness: the override runs for IO Bank 0 and the shared default runs
\* for the hard fault that interrupted it
C3_Witness ==
    /\ \E f \in EnteredFor(IrqBase + IO_BANK0_IRQ) : f.fn = "ioIrqBank0"
    /\ \E f \in EnteredFor(HardFaultExc) : f.fn = "defaultHandler"

\* the positions of defaultHandler's loop and the moves between them
DefaultLoopPcs == {"d153", "d153w", "d154"}

DefaultLoopMoves == { << "d153", "d153w" >>, << "d153w", "d154" >>, << "d154", "d153" >> }

\* C4: a frame of defaultHandler is never removed from the stack, stays in
\* the loop, and moves only from the wfi instruction into the wait, from the
\* wait (on wake-up) to the loop branch, and from there back to the wfi.
C4_DefaultNeverReturns ==
    [][\A k \in 1..Len(stack) :
          stack[k].fn = "defaultHandler" =>
              /\ Len(stack') >= k
              /\ stack'[k].fn = "defaultHandler"
              /\ stack'[k].exc = stack[k].exc
              /\ stack[k].pc \in DefaultLoopPcs
              /\ stack'[k].pc \in DefaultLoopPcs
              /\ stack'[k].pc # stack[k].pc =>
                     << stack[k].pc, stack'[k].pc >> \in DefaultLoopMoves]_vars

\* C4 witness: defaultHandler, entered for a hard fault, has been woken from
\* its wait and is about to loop back to the wfi
C4_Witness ==
    /\ Running("defaultHandler", "d154")
    /\ Top.exc = HardFaultExc

\* C5: resetHandler calls main at most once, main runs with no arguments on
\* top of resetHandler, and a step takes the boot sequencer from Running to
\* Halted only by returning from main.
C5_BootSequence ==
    /\ [](/\ mainCalls <= 1
          /\ \A k \in 1..Len(stack) :
                 stack[k].fn = "main" => /\ mainCalls = 1
                                         /\ stack[k].args = << >>
                                         /\ k = 2
                                         /\ stack[1].fn = "resetHandler"
          /\ BootState = "Halted" => mainCalls = 1)
    /\ [][(BootState = "Running" /\ BootState' = "Halted") =>
              /\ Top.fn = "main"
              /\ stack' = Pop]_vars

\* C5 witness: main has returned and the boot sequencer is Halted
C5_Witness ==
    /\ BootState = "Halted"
    /\ mainCalls = 1
    /\ Len(stack) = 1

\* C6: when main has returned and the boot sequencer is Halted, the
\* instruction resetHandler loops on is the wait-for-interrupt instruction,
\* as defaultHandler's loop has one.
C6_HaltedIsLowPowerWait ==
    BootState = "Halted" =>
        /\ \E pc \in DefaultLoopPcs : Instr("defaultHandler", pc) = "wfi"
        /\ \A f \in Frames : f.fn = "resetHandler" => Instr(f.fn, f.pc) = "wfi"

\* the frames of ioIrqBank0 (at most one: it cannot interrupt itself)
HandlerFrames == {f \in Frames : f.fn = "ioIrqBank0"}

Writes(f) == {k \in 1..Len(f.log) : f.log[k][1] = "w"}

\* the registers with the latched interrupt bits left out (the pins set them)
NoIntr(h) == [h EXCEPT !.intr = [k \in IntRegs |-> {}]]

\* C7: an invocation of ioIrqBank0 makes its output write if and only if the
\* button's source was asserted when it read the status: asserted, its first
\* write is to gpio_out_set and leaves the LED and speaker bits set; clear,
\* it goes to its return having written nothing, and while it is on the
\* stack no step changes a register (but for the edges the pins latch).
C7_EffectIffAsserted ==
    /\ [](\A f \in HandlerFrames :
            /\ f.entry = "none" => /\ f.pc = "h84"
                                   /\ Writes(f) = {}
            /\ f.entry = "clear" => /\ f.pc = "h99"
                                    /\ Writes(f) = {}
            /\ f.entry = "asserted" =>
                   /\ f.pc \in {"h91", "h92", "h94", "h97", "h99"}
                   /\ f.pc = "h91" <=> Writes(f) = {}
                   /\ f.pc # "h91" => /\ f.log[2] = Access("w", "gpio_out_set")
                                      /\ f.log[1] = Access("r", "proc0_ints")
                   /\ f.pc \in {"h92", "h94"} => OutMask \subseteq hw.out)
    /\ [][(\E f \in HandlerFrames : f.entry = "clear") => NoIntr(hw') = NoIntr(hw)]_vars
    /\ [][(\E f \in HandlerFrames : f.entry = "none") =>
             /\ NoIntr(hw') = NoIntr(hw)
             /\ \A f \in {g \in Frames' : g.fn = "ioIrqBank0" /\ g.entry # "none"} :
                    f.entry = (IF SourceAsserted(hw, pin) THEN "asserted" ELSE "clear")]_vars

\* C7 witness: entered with the source clear (and the outputs high), the
\* handler is at its return having written nothing
C7_Witness ==
    \E f \in HandlerFrames :
        /\ f.entry = "clear"
        /\ f.pc = "h99"
        /\ Writes(f) = {}
        /\ hw.out = OutMask

ButtonPending == EdgeHighBits(BUTTON_PIN) \subseteq IntrRead(hw, pin, RegOf(BUTTON_PIN))

\* C8 as claimed: at the return of an invocation entered with the source
\* asserted, the button's pending bit is deasserted.
C8_ClearedAtReturn ==
    \A f \in HandlerFrames :
        (f.entry = "asserted" /\ f.pc = "h99") =>
            /\ ~ButtonPending
            /\ ~SourceAsserted(hw, pin)

\* C8 amended: right after the handler's clear write the button's pending
\* bit is deasserted in intr and in proc0_ints, and at the return it is
\* asserted only if a new rising edge of the button was latched after that
\* write.
C8_ClearedUnlessNewEdge ==
    /\ [](\A f \in HandlerFrames :
            (f.entry = "asserted" /\ f.pc = "h99") =>
                \/ ~ButtonPending /\ ~SourceAsserted(hw, pin)
                \/ edges > f.mark)
    /\ [][(Running("ioIrqBank0", "h97") /\ Len(stack') = Len(stack) /\ Top'.pc = "h99") =>
              /\ ~ButtonPending'
              /\ ~SourceAsserted(hw', pin')]_vars

\* C8 witness: an invocation entered with the source asserted is at its
\* return with the pending bit clear
C8_Witness ==
    \E f \in HandlerFrames :
        /\ f.entry = "asserted"
        /\ f.pc = "h99"
        /\ ~ButtonPending
        /\ Running("ioIrqBank0", "h99")

\* nothing is being handled and nothing is pending for the button
Quiescent ==
    /\ stack # << >>
    /\ \A f \in Frames : f.exc < IrqBase /\ f.exc # HardFaultExc
    /\ armed
    /\ IO_BANK0_IRQ \in hw.iser
    /\ ~SourceAsserted(hw, pin)

\* C9 as claimed: every rising edge of the button causes exactly one
\* invocation that asserts the outputs.
C9_OncePerEdge ==
    /\ serviced <= edges
    /\ Quiescent => serviced = edges

\* C9 amended: every rising edge that sets the button's pending bit (finds
\* it clear) causes exactly one invocation that asserts the outputs; a
\* rising edge that arrives while the bit is still pending, as during the
\* handler's delay before its clear, causes none of its own.
C9_OncePerLatchedEdge ==
    /\ serviced <= fresh
    /\ fresh <= edges
    /\ Quiescent => serviced = fresh

\* C9 witness: two rising edges, the second during the handler's delay, and
\* one invocation, with nothing pending any more
C9_Witness ==
    /\ Quiescent
    /\ edges = 2
    /\ fresh = 1
    /\ serviced = 1

\* the step that is the handler's write to intr (line 97)
AckStep ==
    /\ Running("ioIrqBank0", "h97")
    /\ Len(stack') = Len(stack)
    /\ Top'.pc = "h99"

\* C10 as claimed: the write to intr leaves the pending bits of the other
\* pins unchanged and clears no bit but the edge-high bit of the button.
C10_ClearsOnlyTestedBit ==
    [][AckStep =>
          \A k \in IntRegs :
              hw.intr[k] \ hw'.intr[k] \subseteq
                  (IF k = RegOf(BUTTON_PIN) THEN EdgeHighBits(BUTTON_PIN) ELSE {})]_vars

\* C10 amended: the write to intr leaves the pending bits of every other
\* pin unchanged; what it clears are the two latched edge bits of the
\* button, the edge-high bit it tested and the edge-low bit.
C10_ClearsOnlyOwnPin ==
    [][AckStep =>
          \A k \in IntRegs :
              hw'.intr[k] =
                  hw.intr[k] \ (IF k = RegOf(BUTTON_PIN)
                                THEN EdgeHighBits(BUTTON_PIN) \cup EdgeLowBits(BUTTON_PIN)
                                ELSE {})]_vars

\* C10 witness: the handler has written its clear, the button's edge bits
\* are clear and both edge bits of the other pin are still pending
C10_Witness ==
    /\ Running("ioIrqBank0", "h99")
    /\ hw.intr[RegOf(BUTTON_PIN)] \cap (EdgeHighBits(BUTTON_PIN) \cup EdgeLowBits(BUTTON_PIN)) = {}
    /\ EdgeHighBits(OtherPin) \cup EdgeLowBits(OtherPin) \subseteq hw.intr[RegOf(OtherPin)]

\* the positions of a frame's access log where a register is read and the
\* next access of the frame writes the same register back: a plain
\* read-modify-write (transmitter.c lines 107 and 131)
PlainRmw(f) ==
    {k \in 1..(Len(f.log) - 1) :
        /\ f.log[k][1] = "r"
        /\ f.log[k + 1] = Access("w", f.log[k][2])}

\* C11 as claimed: main and ioIrqBank0 never modify a register by a plain
\* read-modify-write, a read of the register followed by a write of the
\* same register; every modification is one write to a set/clear alias.
C11_OnlyAtomicAliases ==
    \A f \in Frames :
        f.fn \in {"main", "ioIrqBank0"} => PlainRmw(f) = {}

\* the positions of main's idle loop, lines 152-154
MainIdlePcs == {"m153", "m153w", "m154"}

\* C12: main never returns to resetHandler: no step pops a frame of main,
\* a main that has reached its wfi loop stays in it, and the boot
\* sequencer is never Halted, whatever interrupts and faults occur.
C12_MainNeverReturns ==
    [][/\ BootState' # "Halted"
       /\ \A k \in 1..Len(stack) :
              stack[k].fn = "main" =>
                  /\ Len(stack') >= k
                  /\ stack'[k].fn = "main"
                  /\ stack[k].pc \in MainIdlePcs => stack'[k].pc \in MainIdlePcs]_vars

\* C12 witness: main has been woken in its idle loop after the button
\* interrupt was serviced, and the boot sequencer is still Running
C12_Witness ==
    /\ Running("main", "m154")
    /\ serviced > 0
    /\ BootState = "Running"
    /\ Len(stack) = 2

\* C13 as claimed: once Halted the system stays Halted and nothing further
\* executes: no step taken in Halted leaves a handler of a peripheral
\* interrupt on the stack or changes a register written by code (the
\* latched edge bits of intr are set by the pins, not by code).
C13_HaltedNothingRuns ==
    [][BootState = "Halted" =>
          /\ BootState' = "Halted"
          /\ \A f \in {stack'[k] : k \in 1..Len(stack')} : f.exc < IrqBase
          /\ NoIntr(hw') = NoIntr(hw)]_vars

\* the positions of the stack holding a frame entered for exception n
ActiveAt(s, n) == {k \in 1..Len(s) : s[k].exc = n}

\* C14 as claimed: whenever the condition of an enabled slot without an
\* application handler is raised, at the first time or again after
\* defaultHandler was woken from its wait, defaultHandler is dispatched.
C14_DispatchedOnEveryRaise ==
    \A irq \in UnboundIrqs :
        (/\ irq \in hw.iser
         /\ irq \in hw.pend
         /\ \/ stack = << >>
            \/ /\ ActiveAt(stack, IrqBase + irq) = {Len(stack)}
               /\ Running("defaultHandler", "d154"))
        => Dispatchable(IrqBase + irq)

\* C14 amended: the condition of an enabled slot without an application
\* handler, raised while no exception is active, can be dispatched and
\* its entry is defaultHandler; defaultHandler then stays in its wait loop
\* and is never left, so a condition raised again after a wake-up is not
\* dispatched again: the slot has at most one invocation and the new
\* request stays pending.
C14_DispatchedOncePerSlot ==
    [][\A irq \in UnboundIrqs :
          /\ Entry(IrqBase + irq) = "defaultHandler"
          /\ (irq \in hw.iser /\ irq \in hw.pend /\ stack = << >>)
                 => Dispatchable(IrqBase + irq)
          /\ ActiveAt(stack, IrqBase + irq) # {} => ~Dispatchable(IrqBase + irq)
          /\ Cardinality(ActiveAt(stack', IrqBase + irq)) <= 1
          /\ \A k \in ActiveAt(stack, IrqBase + irq) :
                 /\ k \in ActiveAt(stack', IrqBase + irq)
                 /\ stack'[k].fn = "defaultHandler"
                 /\ stack'[k].pc \in DefaultLoopPcs]_vars

\* C14 witness: defaultHandler, dispatched for timer 0, has been woken from
\* its wait and the condition of timer 0 is raised again
C14_Witness ==
    /\ Running("defaultHandler", "d154")
    /\ Top.exc = IrqBase
    /\ 0 \in hw.iser
    /\ 0 \in hw.pend

\* the exception numbers of the ARMv6-M architecture, 0..15, by the name
\* the source gives each ("0" where the architecture reserves the number)
ArchSystemOrder ==
    << "_sstack", "resetHandler", "nmiHandler", "hardFaultHandler",
       "0", "0", "0", "0", "0", "0", "0", "svCallHandler", "0", "0",
       "pendSvHandler", "sysTickHandler" >>

\* the peripheral interrupts of the RP2040, 0..25, in the order of their
\* interrupt numbers, by the name the source gives each
ArchIrqOrder ==
    << "timerIrq0", "timerIrq1", "timerIrq2", "timerIrq3", "pwmIrqWrap",
       "usbctrlIrq", "xipIrq", "pio0Irq0", "pio0Irq1", "pio1Irq0",
       "pio1Irq1", "dmaIrq0", "dmaIrq1", "ioIrqBank0", "ioIrqQspi",
       "sioIrqProc0", "sioIrqProc1", "clocksIrq", "spi0Irq", "spi1Irq",
       "uart0Irq", "uart1Irq", "adcIrqFifo", "i2c0Irq", "i2c1Irq", "rtcIrq" >>

\* C15: the table has exactly 48 entries in the architecture's order: the
\* 16 system entries, peripheral interrupt n at index 16 + n for n = 0..25,
\* then 6 reserved entries; interrupt IO_BANK0_IRQ = 13 is dispatched
\* through index 29, which holds ioIrqBank0.
C15_TableLayout ==
    /\ Len(vector) = 48
    /\ Len(ArchSystemOrder) = IrqBase
    /\ \A n \in 0..15 : Entry(n) = Link(ArchSystemOrder[n + 1])
    /\ \A n \in 0..25 : Entry(IrqBase + n) = Link(ArchIrqOrder[n + 1])
    /\ \A n \in 42..47 : Entry(n) = Null
    /\ IrqBase + IO_BANK0_IRQ = 29
    /\ Entry(29) = "ioIrqBank0"
    /\ \A n \in (16..41) \ {29} : Entry(n) # "ioIrqBank0"
    /\ hw.iser \subseteq {IO_BANK0_IRQ}
    /\ \A f \in Frames : f.exc >= IrqBase => /\ f.exc = 29
                                             /\ f.fn = "ioIrqBank0"

\* C15 witness: interrupt 13, the only one enabled, has been dispatched
\* through index 29 and ioIrqBank0 is at its first statement
C15_Witness ==
    /\ hw.iser = {IO_BANK0_IRQ}
    /\ Running("ioIrqBank0", "h84")
    /\ Top.exc = 29

\* the register accesses of an invocation of ioIrqBank0 that found its
\* source asserted, in program order (lines 84, 91, 94, 97)
HandlerOrder ==
    << Access("r", "proc0_ints"), Access("w", "gpio_out_set"),
       Access("w", "gpio_out_clr"), Access("w", "intr") >>

\* how many of these accesses are behind a handler at position pc
DoneAt(pc) ==
    CASE pc = "h91" -> 1
      [] pc \in {"h92", "h94"} -> 2
      [] pc = "h97" -> 3
      [] pc = "h99" -> 4

\* C16: an invocation of ioIrqBank0 entered with its source asserted
\* performs its steps in order (assert LED and speaker, run the delay to
\* completion, deassert both, clear the pending source, return), has both
\* output bits low at its return, and always terminates.
C16_TerminatesInOrder ==
    /\ [](\A f \in HandlerFrames :
              f.entry = "asserted" =>
                  /\ f.pc \in {"h91", "h92", "h94", "h97", "h99"}
                  /\ f.log = SubSeq(HandlerOrder, 1, DoneAt(f.pc))
                  /\ f.pc = "h99" => hw.out \cap OutMask = {})
    /\ [][(stack # << >> /\ Top.fn = "delay" /\ Len(stack') < Len(stack))
              => /\ Top.i >= Top.count
                 /\ Top.count = HandlerDelay
                 /\ stack'[Len(stack')].pc = "h94"]_vars
    /\ (\E f \in HandlerFrames : f.entry = "asserted") ~> (stack = << >>)

\* C16 witness: an invocation that found its source asserted is at its
\* return, all four accesses made and both outputs low
C16_Witness ==
    /\ Running("ioIrqBank0", "h99")
    /\ Top.entry = "asserted"
    /\ Top.log = HandlerOrder
    /\ hw.out \cap OutMask = {}

\* the register accesses of main before it enables the interrupt in the
\* interrupt controller, in program order (lines 107-131)
ConfigOrder ==
    << Access("r", "RESETS_RESET"), Access("w", "RESETS_RESET"),
       Access("w", "gpio_ctrl"), Access("w", "gpio_oe_clr"), Access("w", "pads_gpio"),
       Access("w", "gpio_ctrl"), Access("w", "gpio_oe_set"),
       Access("w", "gpio_ctrl"), Access("w", "gpio_oe_set"),
       Access("w", "intr"),
       Access("r", "proc0_inte"), Access("w", "proc0_inte") >>

\* main has made every access of ConfigOrder and then written NVIC_ISER
EnabledInOrder(f) ==
    /\ Len(f.log) > Len(ConfigOrder)
    /\ SubSeq(f.log, 1, Len(ConfigOrder)) = ConfigOrder
    /\ f.log[Len(ConfigOrder) + 1] = Access("w", "NVIC_ISER")

\* C17: ioIrqBank0 never begins before main has configured the pins and
\* cleared the stale pending edges: main's write of NVIC_ISER comes after
\* every pin-configuration write, the pending-clear write and the
\* edge-enable write, with both read-modify-write sequences complete, and
\* no interrupt is enabled and no handler invocation exists before it.
C17_EnabledAfterConfigured ==
    /\ \A f \in Frames :
           f.fn = "main" =>
               \A k \in 1..Len(f.log) :
                   f.log[k] = Access("w", "NVIC_ISER") =>
                       /\ k = Len(ConfigOrder) + 1
                       /\ EnabledInOrder(f)
    /\ (hw.iser # {} \/ HandlerFrames # {}) =>
           /\ \E f \in Frames : f.fn = "main" /\ EnabledInOrder(f)
           /\ armed
           /\ ~IoBankInReset(hw)
           /\ \A p \in ConfigPins : hw.ctrl[p] = GPIO_FUNC_SIO
           /\ hw.oe = OutMask
           /\ EdgeHighBits(BUTTON_PIN) \subseteq hw.inte[RegOf(BUTTON_PIN)]

\* C17 witness: the handler begins while main is at the statement after
\* its write of NVIC_ISER
C17_Witness ==
    /\ Running("ioIrqBank0", "h84")
    /\ Len(stack) = 3
    /\ stack[2].fn = "main"
    /\ stack[2].pc = "m135"
    /\ stack[2].log = Append(ConfigOrder, Access("w", "NVIC_ISER"))

\* C18: whenever main is executing in its final wfi idle loop, so that no
\* handler is executing, the LED and speaker output bits are both low,
\* however button interrupts interleaved with the blink pattern and the
\* debug flash.
C18_IdleOutputsLow ==
    (stack # << >> /\ Top.fn = "main" /\ Top.pc \in MainIdlePcs)
        => hw.out \cap OutMask = {}

\* C18 witness: main waits in its idle loop after as many button
\* interrupts as the model counts were serviced, with both outputs low
C18_Witness ==
    /\ Running("main", "m153w")
    /\ serviced = MaxEdges
    /\ hw.oe = OutMask
    /\ hw.out = {}

\* the exception numbers below the peripheral interrupts that the
\* architecture does not reserve (startup.c lines 79-81, 89, 92, 93)
SystemExceptions == {ResetExc, NmiExc, HardFaultExc, 11, 14, 15}

\* C19: no dispatch jumps to a null table entry: the only peripheral
\* interrupt ever enabled is 13, whose entry is non-null, every
\* non-reserved system exception has a non-null entry, no interrupt with a
\* null entry is dispatchable and no frame was entered through a null entry.
C19_NoNullDispatch ==
    /\ hw.iser \subseteq {IO_BANK0_IRQ}
    /\ Entry(IrqBase + IO_BANK0_IRQ) # Null
    /\ \A n \in SystemExceptions : Entry(n) # Null
    /\ \A n \in VectorIndexes : Entry(n) = Null => ~Dispatchable(n)
    /\ \A f \in Frames : /\ f.fn # Null
                         /\ f.pc # "undefined"
                         /\ f.exc # 0 => Entry(f.exc) # Null

\* C19 witness: a hard fault was dispatched on top of the handler of
\* interrupt 13, both through non-null entries
C19_Witness ==
    /\ Len(stack) = 4
    /\ stack[3].exc = IrqBase + IO_BANK0_IRQ
    /\ stack[3].fn = Entry(stack[3].exc)
    /\ stack[4].exc = HardFaultExc
    /\ stack[4].fn = Entry(HardFaultExc)
    /\ Null \notin {stack[3].fn, stack[4].fn}
====
